---- MODULE Spec2Model ----
(***************************************************************************)
(* ropenapi: Swagger/OpenAPI JSON -> TypeScript service files.             *)
(* The model follows src/src/main.rs (the pipeline), src/src/parser.rs     *)
(* (parse_swagger and its helpers) and src/src/generator.rs (the emitter). *)
(*                                                                         *)
(* Strings are sequences of one-character strings, so that trimming,      *)
(* lower-casing, splitting and substring search are computed as the code  *)
(* computes them.  Option<T> is a sequence of length 0 (None) or 1 (Some). *)
(***************************************************************************)
EXTENDS Integers, Sequences, FiniteSets, TLC

(***************************************************************************)
(* Bounds of the model.                                                    *)
(***************************************************************************)
MaxOps == 2
MaxSchemas == 1
MaxRuns == 2

(***************************************************************************)
(* Option                                                                  *)
(***************************************************************************)
None == << >>
Some(x) == << x >>
IsSome(o) == Len(o) > 0
Unwrap(o) == o[1]

(***************************************************************************)
(* Characters and strings (Rust str / String)                              *)
(***************************************************************************)
\* The characters of the model, in ascending byte (ASCII) order.
CharOrder ==
  << " ", "#", ",", "-", ".", "/", "0", "1", "2", ";",
     "A", "B", "C", "D", "E", "F", "G", "H", "I", "J", "K", "L", "M",
     "N", "O", "P", "Q", "R", "S", "T", "U", "V", "W", "X", "Y", "Z",
     "[", "]",
     "a", "b", "c", "d", "e", "f", "g", "h", "i", "j", "k", "l", "m",
     "n", "o", "p", "q", "r", "s", "t", "u", "v", "w", "x", "y", "z",
     "{", "}" >>

Lowers == << "a", "b", "c", "d", "e", "f", "g", "h", "i", "j", "k", "l", "m",
             "n", "o", "p", "q", "r", "s", "t", "u", "v", "w", "x", "y", "z" >>
Uppers == << "A", "B", "C", "D", "E", "F", "G", "H", "I", "J", "K", "L", "M",
             "N", "O", "P", "Q", "R", "S", "T", "U", "V", "W", "X", "Y", "Z" >>

CharIndex(c) == CHOOSE i \in 1..Len(CharOrder) : CharOrder[i] = c

\* char::to_uppercase / char::to_lowercase on the model's characters
CharToUpper(c) ==
  IF \E i \in 1..Len(Lowers) : Lowers[i] = c
  THEN Uppers[CHOOSE i \in 1..Len(Lowers) : Lowers[i] = c]
  ELSE c
CharToLower(c) ==
  IF \E i \in 1..Len(Uppers) : Uppers[i] = c
  THEN Lowers[CHOOSE i \in 1..Len(Uppers) : Uppers[i] = c]
  ELSE c

\* str::to_lowercase / str::to_uppercase
ToLowercase(s) == [i \in 1..Len(s) |-> CharToLower(s[i])]
ToUppercase(s) == [i \in 1..Len(s) |-> CharToUpper(s[i])]

\* char::is_whitespace.  Emitted text is a sequence of atoms too: a character, or
\* a literal chunk of a format string; "\n" and "\n\n" are its newline chunks.
IsWhitespace(c) == c \in { " ", "\n", "\n\n" }

\* str::trim_start / trim_end / trim
RECURSIVE TrimStart(_)
TrimStart(s) ==
  IF s # << >> /\ IsWhitespace(Head(s)) THEN TrimStart(Tail(s)) ELSE s
RECURSIVE TrimEnd(_)
TrimEnd(s) ==
  IF s # << >> /\ IsWhitespace(s[Len(s)])
  THEN TrimEnd(SubSeq(s, 1, Len(s) - 1))
  ELSE s
Trim(s) == TrimEnd(TrimStart(s))

\* str::trim_start_matches(c) / trim_end_matches(c)
RECURSIVE TrimStartMatches(_, _)
TrimStartMatches(s, c) ==
  IF s # << >> /\ Head(s) = c THEN TrimStartMatches(Tail(s), c) ELSE s
RECURSIVE TrimEndMatches(_, _)
TrimEndMatches(s, c) ==
  IF s # << >> /\ s[Len(s)] = c
  THEN TrimEndMatches(SubSeq(s, 1, Len(s) - 1), c)
  ELSE s

\* str::contains(&str)
Contains(s, t) ==
  \E i \in 0..(Len(s) - Len(t)) : SubSeq(s, i + 1, i + Len(t)) = t

\* str::split(c): the pieces between the occurrences of c, in order
RECURSIVE SplitAcc(_, _, _)
SplitAcc(s, c, cur) ==
  IF s = << >> THEN << cur >>
  ELSE IF Head(s) = c THEN << cur >> \o SplitAcc(Tail(s), c, << >>)
  ELSE SplitAcc(Tail(s), c, Append(cur, Head(s)))
Split(s, c) == SplitAcc(s, c, << >>)

\* str::split_whitespace(): the non-empty runs of non-whitespace
SplitWhitespace(s) == SelectSeq(Split(s, " "), LAMBDA p : p # << >>)

\* Concatenation of a sequence of strings
RECURSIVE Concat(_)
Concat(ss) == IF ss = << >> THEN << >> ELSE Head(ss) \o Concat(Tail(ss))

\* Ord for String: byte-wise lexicographic order (the key order of BTreeMap)
RECURSIVE StrLess(_, _)
StrLess(a, b) ==
  IF b = << >> THEN FALSE
  ELSE IF a = << >> THEN TRUE
  ELSE IF Head(a) = Head(b) THEN StrLess(Tail(a), Tail(b))
  ELSE CharIndex(Head(a)) < CharIndex(Head(b))

\* The keys of a BTreeMap in iteration (ascending) order
RECURSIVE SortedKeys(_)
SortedKeys(S) ==
  IF S = {} THEN << >>
  ELSE LET m == CHOOSE x \in S : \A y \in S \ {x} : StrLess(x, y)
       IN << m >> \o SortedKeys(S \ {m})

(***************************************************************************)
(* String literals of the program                                          *)
(***************************************************************************)
sAny == << "a", "n", "y" >>
sDefault == << "d", "e", "f", "a", "u", "l", "t" >>
sRequest == << "R", "e", "q", "u", "e", "s", "t" >>
sArraySuffix == << "[", "]" >>
sBy == << " ", "b", "y", " " >>
sController == << "C", "o", "n", "t", "r", "o", "l", "l", "e", "r" >>
sDotTs == << ".", "t", "s" >>
sParams == << "p", "a", "r", "a", "m", "s" >>
sData == << "d", "a", "t", "a" >>

sGet == << "g", "e", "t" >>
sPost == << "p", "o", "s", "t" >>
sPut == << "p", "u", "t" >>
sDelete == << "d", "e", "l", "e", "t", "e" >>
sPatch == << "p", "a", "t", "c", "h" >>
sHead == << "h", "e", "a", "d" >>
sOptions == << "o", "p", "t", "i", "o", "n", "s" >>

sString == << "s", "t", "r", "i", "n", "g" >>
sInteger == << "i", "n", "t", "e", "g", "e", "r" >>
sNumber == << "n", "u", "m", "b", "e", "r" >>
sFloat == << "f", "l", "o", "a", "t" >>
sDouble == << "d", "o", "u", "b", "l", "e" >>
sBoolean == << "b", "o", "o", "l", "e", "a", "n" >>
sArray == << "a", "r", "r", "a", "y" >>

s200 == << "2", "0", "0" >>
s201 == << "2", "0", "1" >>

(***************************************************************************)
(* parser.rs: helpers of parse_swagger                                     *)
(***************************************************************************)
\* is_valid_http_method
IsValidHttpMethod(method) ==
  method \in { sGet, sPost, sPut, sDelete, sPatch, sHead, sOptions }

\* extract_tag: operation.tags is None when the key is absent or no array;
\* an entry of the array is None when it is not a JSON string.
ExtractTag(operation) ==
  IF IsSome(operation.tags) /\ Len(Unwrap(operation.tags)) > 0
  THEN Unwrap(operation.tags)[1]
  ELSE None

\* normalize_tag without the lower-casing
NormalizeTagNoLowercase(tag) == Trim(tag)

\* normalize_tag
NormalizeTag(tag) == ToLowercase(Trim(tag))

\* capitalize_first (parser.rs) and capitalize (generator.rs)
CapitalizeFirst(s) ==
  IF s = << >> THEN << >> ELSE << CharToUpper(Head(s)) >> \o Tail(s)

\* METHOD_OP_MAP
METHOD_OP_MAP ==
  << << sGet, << "G", "e", "t" >> >>,
     << sPost, << "C", "r", "e", "a", "t", "e" >> >>,
     << sPut, << "U", "p", "d", "a", "t", "e" >> >>,
     << sDelete, << "D", "e", "l", "e", "t", "e" >> >>,
     << sPatch, << "P", "a", "t", "c", "h" >> >>,
     << sHead, << "H", "e", "a", "d" >> >>,
     << sOptions, << "O", "p", "t", "i", "o", "n", "s" >> >> >>

\* str::replace(c, r): every occurrence of the character c replaced by r
RECURSIVE ReplaceChar(_, _, _)
ReplaceChar(s, c, r) ==
  IF s = << >> THEN << >>
  ELSE (IF Head(s) = c THEN r ELSE << Head(s) >>) \o ReplaceChar(Tail(s), c, r)

\* generate_function_name
GenerateFunctionName(method, path) ==
  LET method_lower == ToLowercase(method)
      path_clean ==
        ReplaceChar(ReplaceChar(ReplaceChar(path, "/", << " " >>), "{", sBy),
                    "}", << >>)
      parts == SplitWhitespace(path_clean)
      found == { i \in 1..Len(METHOD_OP_MAP) : METHOD_OP_MAP[i][1] = method_lower }
      verb == IF found = {} THEN << >>
              ELSE METHOD_OP_MAP[CHOOSE i \in found : \A j \in found : i <= j][2]
  IN verb \o Concat([i \in 1..Len(parts) |-> CapitalizeFirst(parts[i])])

\* extract_function_name
ExtractFunctionName(operation, method, path) ==
  IF IsSome(operation.operationId)
  THEN Unwrap(operation.operationId)
  ELSE GenerateFunctionName(method, path)

\* extract_type_name_from_schema.  A schema node is
\* [ref, type : Option<String>, items : Option<node>]; a field is None when
\* the key is absent (or, for ref and type, no string).
RECURSIVE ExtractTypeNameFromSchema(_)
ExtractTypeNameFromSchema(schema) ==
  IF IsSome(schema.ref)
  THEN LET pieces == Split(Unwrap(schema.ref), "/") IN pieces[Len(pieces)]
  ELSE IF IsSome(schema.type)
  THEN LET type_str == Unwrap(schema.type) IN
       IF type_str = sString THEN sString
       ELSE IF type_str \in { sInteger, sNumber, sFloat, sDouble } THEN sNumber
       ELSE IF type_str = sBoolean THEN sBoolean
       ELSE IF type_str = sArray
       THEN (IF IsSome(schema.items)
             THEN ExtractTypeNameFromSchema(Unwrap(schema.items)) \o sArraySuffix
             ELSE sAny \o sArraySuffix)
       ELSE sAny
  ELSE sAny

\* should_include_type attaching every schema to every service
ShouldIncludeTypeAlways(type_name, operations) == TRUE

\* should_include_type
ShouldIncludeType(type_name, operations) ==
  \E i \in 1..Len(operations) :
    \/ Contains(operations[i].request_type, type_name)
    \/ Contains(operations[i].response_type, type_name)

\* A map insert: BTreeMap::insert(key, value), replacing an earlier value
MapInsert(m, k, v) == [x \in (DOMAIN m) \cup {k} |-> IF x = k THEN v ELSE m[x]]
EmptyMap == [x \in {} |-> None]

\* The field type of a flat parameter (the match of extract_types)
ParamJsType(field_type) ==
  IF field_type = sString THEN sString
  ELSE IF field_type \in { sInteger, sNumber, sFloat, sDouble } THEN sNumber
  ELSE IF field_type = sBoolean THEN sBoolean
  ELSE sAny

\* extract_types, first loop: the parameters that carry a `schema` node, in
\* order; request_type is overwritten by each and the loop breaks at the
\* first result that is neither empty nor "any".
RECURSIVE SchemaParamLoop(_, _)
SchemaParamLoop(params, request_type) ==
  IF params = << >> THEN request_type
  ELSE IF IsSome(Head(params).schema)
  THEN LET t == ExtractTypeNameFromSchema(Unwrap(Head(params).schema)) IN
       IF t # << >> /\ t # sAny THEN t
       ELSE SchemaParamLoop(Tail(params), t)
  ELSE SchemaParamLoop(Tail(params), request_type)

\* extract_types, the fields of the synthesized type: the parameters that
\* have a string `name` and a string `type`, a later one replacing an
\* earlier one of the same name.
RECURSIVE CustomFields(_, _)
CustomFields(params, fields) ==
  IF params = << >> THEN fields
  ELSE LET param == Head(params) IN
       IF IsSome(param.name) /\ IsSome(param.type)
       THEN CustomFields(Tail(params),
              MapInsert(fields, Unwrap(param.name),
                [ field_type |-> ParamJsType(Unwrap(param.type)),
                  optional |-> IF IsSome(param.required)
                               THEN ~Unwrap(param.required)
                               ELSE TRUE,
                  description |-> None ]))
       ELSE CustomFields(Tail(params), fields)

\* The name of the synthesized request type
CustomTypeName(service_name) == CapitalizeFirst(service_name) \o sRequest

\* extract_types, the request type after the parameter schemas and the
\* requestBody have been looked at (lines 212-237).  operation.requestBody is
\* the node at requestBody.content["application/json"].schema, None when any
\* key on the way is absent.
SchemaRequestType(operation) ==
  LET params == IF IsSome(operation.parameters)
                THEN Unwrap(operation.parameters) ELSE << >>
      t1 == SchemaParamLoop(params, sAny)
  IN IF t1 = sAny /\ IsSome(operation.requestBody)
     THEN ExtractTypeNameFromSchema(Unwrap(operation.requestBody))
     ELSE t1

\* extract_types, the response entry chosen: "200", else "201", else
\* "default", else the first entry of the map
ChooseResponse(responses) ==
  LET at(k) == { i \in 1..Len(responses) : responses[i].key = k } IN
  IF at(s200) # {} THEN Some(responses[CHOOSE i \in at(s200) : TRUE].resp)
  ELSE IF at(s201) # {} THEN Some(responses[CHOOSE i \in at(s201) : TRUE].resp)
  ELSE IF at(sDefault) # {}
  THEN Some(responses[CHOOSE i \in at(sDefault) : TRUE].resp)
  ELSE IF responses # << >> THEN Some(responses[1].resp)
  ELSE None

\* extract_types, the response type (lines 278-297).  A response entry is
\* [schema, content : Option<node>], content being the node at
\* content["application/json"].schema.
ResponseType(operation) ==
  IF IsSome(operation.responses)
  THEN LET chosen == ChooseResponse(Unwrap(operation.responses)) IN
       IF IsSome(chosen)
       THEN (IF IsSome(Unwrap(chosen).schema)
             THEN ExtractTypeNameFromSchema(Unwrap(Unwrap(chosen).schema))
             ELSE IF IsSome(Unwrap(chosen).content)
             THEN ExtractTypeNameFromSchema(Unwrap(Unwrap(chosen).content))
             ELSE sAny)
       ELSE sAny
  ELSE sAny

\* extract_types: the request type, the response type and the service's
\* type table as the call leaves it.
ExtractTypes(operation, service) ==
  LET params == IF IsSome(operation.parameters)
                THEN Unwrap(operation.parameters) ELSE << >>
      t2 == SchemaRequestType(operation)
      synth == t2 = sAny /\ params # << >>
      type_name == CustomTypeName(service.name)
      custom_type == [ name |-> type_name,
                       fields |-> CustomFields(params, EmptyMap),
                       description |-> None ]
      request_type == IF synth THEN type_name ELSE t2
      response_type == ResponseType(operation)
  IN [ request_type |-> IF request_type = << >> THEN sAny ELSE request_type,
       response_type |-> IF response_type = << >> THEN sAny ELSE response_type,
       type_definitions |->
         IF synth
         THEN MapInsert(service.type_definitions, type_name, custom_type)
         ELSE service.type_definitions ]

\* parse_operation: the ApiOperation and the service's type table after it
ParseOperation(operation, path, method, service) ==
  LET types == ExtractTypes(operation, service) IN
  [ api_op |-> [ path |-> path,
                 method |-> ToUppercase(method),
                 function_name |-> ExtractFunctionName(operation, method, path),
                 request_type |-> types.request_type,
                 response_type |-> types.response_type,
                 operation_id |-> operation.operationId ],
    type_definitions |-> types.type_definitions ]

\* extract_type_definition skipping the entries that are no strings
ExtractTypeDefinitionNeverPanics(schema) == FALSE

\* extract_type_definition panics (expect) when the schema has a
\* `properties` object and an entry of its `required` array is no string.
\* A schema is [properties : Option<map name -> node>,
\* required : Option<Seq<Option<String>>>, description : Option<String>].
ExtractTypeDefinitionPanics(schema) ==
  /\ IsSome(schema.properties)
  /\ IsSome(schema.required)
  /\ \E i \in 1..Len(Unwrap(schema.required)) : ~IsSome(Unwrap(schema.required)[i])

\* extract_type_definition, when it returns
ExtractTypeDefinition(name, schema) ==
  LET props == IF IsSome(schema.properties)
               THEN Unwrap(schema.properties) ELSE EmptyMap
      required_fields == IF IsSome(schema.required)
                         THEN Unwrap(schema.required) ELSE << >>
      \* every entry is a string here: the call has not panicked
      required_fields_set ==
        { Unwrap(required_fields[i]) :
            i \in { j \in 1..Len(required_fields) : IsSome(required_fields[j]) } }
  IN [ name |-> name,
       fields |-> [ field_name \in DOMAIN props |->
                    [ field_type |-> ExtractTypeNameFromSchema(props[field_name]),
                      optional |-> field_name \notin required_fields_set,
                      description |-> None ] ],
       description |-> schema.description ]

\* find_schemas: `definitions` when the key is present, else
\* components.schemas.  swagger.definitions : Option<container>,
\* swagger.components : Option<Option<container>> (the key `components`, then
\* the key `schemas`); a container is Option<Seq<[name, schema]>>, None when
\* the value is no JSON object.
FindSchemas(swagger) ==
  IF IsSome(swagger.definitions) THEN swagger.definitions
  ELSE IF IsSome(swagger.components) THEN Unwrap(swagger.components)
  ELSE None

\* get_service: the entry of the map, created empty when absent
GetService(service_map, name) ==
  IF name \in DOMAIN service_map THEN service_map
  ELSE MapInsert(service_map, name,
         [ name |-> name, operations |-> << >>, type_definitions |-> EmptyMap ])

(***************************************************************************)
(* models.rs and generator.rs: the emitter.  Text is a sequence of atoms:  *)
(* the characters of the names, and the literal chunks of the format       *)
(* strings.                                                                *)
(***************************************************************************)
\* str::ends_with
EndsWith(s, suffix) ==
  Len(s) >= Len(suffix) /\ SubSeq(s, Len(s) - Len(suffix) + 1, Len(s)) = suffix

\* Path::join: an absolute second path replaces the first
PathJoin(base, rel) ==
  IF rel # << >> /\ Head(rel) = "/" THEN rel
  ELSE IF base = << >> \/ rel = << >> \/ base[Len(base)] = "/" THEN base \o rel
  ELSE base \o << "/" >> \o rel

\* TypeDefinition::to_typescript
ToTypescript(type_def) ==
  IF DOMAIN type_def.fields = {}
  THEN << "export type " >> \o type_def.name \o << " = any;" >>
  ELSE LET names == SortedKeys(DOMAIN type_def.fields)
           line(n) == << "  " >> \o n
                      \o (IF type_def.fields[n].optional THEN << "?" >> ELSE << >>)
                      \o << ": " >> \o type_def.fields[n].field_type \o << ";\n" >>
       IN << "export type " >> \o type_def.name \o << " = " >> \o << "{\n" >>
          \o Concat([i \in 1..Len(names) |-> line(names[i])]) \o << "}" >>

\* ApiOperation::to_typescript_function
ToTypescriptFunction(op, path_prefix) ==
  LET arg_name == IF op.method \in { ToUppercase(sGet), ToUppercase(sDelete) }
                  THEN sParams ELSE sData
      req_type == IF op.request_type = << >> \/ op.request_type = sAny
                  THEN sAny ELSE op.request_type
      resp_type == IF op.response_type = << >> \/ op.response_type = sAny
                   THEN sAny ELSE op.response_type
      url == TrimEndMatches(path_prefix, "/") \o << "/" >>
             \o TrimStartMatches(op.path, "/")
  IN << "export const " >> \o op.function_name \o << " = async (" >> \o arg_name
     \o << ": " >> \o req_type \o << "): Promise<" >> \o resp_type
     \o << "> => {\n  return request<" >> \o req_type \o << ", " >> \o resp_type
     \o << ">({\n    url: '" >> \o url \o << "',\n    " >> \o arg_name \o << ": " >>
     \o arg_name \o << ",\n    method: '" >> \o op.method \o << "',\n  });\n};" >>

\* write_api_file_with_request_lib: the content written
ApiFileContent(service, request_lib, api_prefix) ==
  LET n == Len(service.operations) IN
  << "// @ts-expect-error\n" >> \o request_lib \o << "\n\n" >>
  \o Concat([idx \in 1..n |->
       ToTypescriptFunction(service.operations[idx], api_prefix)
       \o (IF idx - 1 < n - 1 THEN << "\n\n" >> ELSE << >>)])
  \o << "\n" >>

\* type_already_exists finding no type
TypeAlreadyExistsNever(type_defs, type_name) == FALSE

\* type_already_exists
TypeAlreadyExists(type_defs, type_name) ==
  \E i \in 1..Len(type_defs) : type_defs[i].name = type_name

\* write_types_file: the placeholder declarations of one operation
Placeholders(type_defs, operation) ==
  (IF ~TypeAlreadyExists(type_defs, operation.request_type)
      /\ operation.request_type # sAny
   THEN << "export type " >> \o operation.request_type \o << " = any;", "\n\n" >>
   ELSE << >>)
  \o
  (IF ~TypeAlreadyExists(type_defs, operation.response_type)
      /\ operation.response_type # sAny
   THEN << "export type " >> \o operation.response_type \o << " = any;", "\n\n" >>
   ELSE << >>)

\* BTreeMap::values(): the values in ascending key order
MapValues(m) == LET ks == SortedKeys(DOMAIN m) IN [i \in 1..Len(ks) |-> m[ks[i]]]

\* write_types_file: the content written or appended
TypesFileContent(service) ==
  LET type_defs == MapValues(service.type_definitions)
      content ==
        << "/**\n", " * Type definitions for " >> \o service.name
        \o << " service\n", " */", "\n\n" >>
        \o Concat([i \in 1..Len(type_defs) |->
             ToTypescript(type_defs[i]) \o << "\n\n" >>])
        \o Concat([i \in 1..Len(service.operations) |->
             Placeholders(type_defs, service.operations[i])])
  IN TrimEnd(content) \o << "\n" >>

\* write_service: the file of a service
ServiceFilePath(services_root, service) ==
  LET service_name ==
        IF EndsWith(ToLowercase(service.name), sController)
        THEN service.name
        ELSE CapitalizeFirst(service.name) \o sController
  IN PathJoin(services_root, service_name \o sDotTs)

\* A write that appends to an existing file
FsWriteAppends(files, path, content) ==
  IF path \in DOMAIN files
  THEN MapInsert(files, path, files[path] \o content)
  ELSE MapInsert(files, path, content)

\* fs::write: the file created or truncated, then written
FsWrite(files, path, content) == MapInsert(files, path, content)

\* write_types_file, its last statement: append when the path exists
FsAppendOrWrite(files, path, content) ==
  IF path \in DOMAIN files
  THEN MapInsert(files, path, files[path] \o content)
  ELSE FsWrite(files, path, content)

(***************************************************************************)
(* main.rs                                                                 *)
(***************************************************************************)
\* main, lines 22-27: the tag filter of --tags
TagFilters(tags) ==
  IF IsSome(tags)
  THEN LET pieces == Split(Unwrap(tags), ",") IN
       Some({ Trim(pieces[i]) : i \in 1..Len(pieces) } \ { << >> })
  ELSE None

\* main, lines 14-18: the output directory
OutDir(args) ==
  IF IsSome(args.out) THEN Unwrap(args.out)
  ELSE IF IsSome(args.service_path) THEN Unwrap(args.service_path)
  ELSE << ".", "/", "s", "e", "r", "v", "i", "c", "e", "s" >>

\* write_services: the directory of the service files
ServicesDir(args) ==
  PathJoin(OutDir(args),
           IF IsSome(args.project_name) THEN Unwrap(args.project_name) ELSE << >>)

(***************************************************************************)
(* The documents and command lines of the model                            *)
(***************************************************************************)
Node(ref, type, items) == [ ref |-> ref, type |-> type, items |-> items ]
RefNode(ref) == Node(Some(ref), None, None)
TypeNode(type) == Node(None, Some(type), None)
ArrayNode(items) == Node(None, Some(sArray), Some(items))
Param(name, type, required, schema) ==
  [ name |-> name, type |-> type, required |-> required, schema |-> schema ]
Response(key, schema, content) ==
  [ key |-> key, resp |-> [ schema |-> schema, content |-> content ] ]
Operation(tags, operationId, parameters, requestBody, responses) ==
  [ tags |-> tags, operationId |-> operationId, parameters |-> parameters,
    requestBody |-> requestBody, responses |-> responses ]
Schema(properties, required, description) ==
  [ properties |-> properties, required |-> required, description |-> description ]

sUser == << "U", "s", "e", "r" >>
sPet == << "P", "e", "t" >>
sUs == << "U", "s" >>
sUsers == << "u", "s", "e", "r", "s" >>
sPets == << "p", "e", "t", "s" >>
sUsersRequest == << "U", "s", "e", "r", "s" >> \o sRequest
sPetsRequest == << "P", "e", "t", "s" >> \o sRequest
sGetUById == << "G", "e", "t", "U", "B", "y", "I", "d" >>
sId == << "i", "d" >>
sQ == << "q" >>
sN == << "n" >>
sTrace == << "t", "r", "a", "c", "e" >>
sObject == << "o", "b", "j", "e", "c", "t" >>
sFile == << "f", "i", "l", "e" >>
\* "#/d/<name>": a reference to a schema
RefTo(name) == << "#", "/", "d", "/" >> \o name

pathN == << "/", "n" >>
pathP == << "/", "p" >>
pathUBy == << "/", "u", "/", "b", "y", "/", "i", "d" >>
pathUId == << "/", "u", "/", "{", "i", "d", "}" >>
pathV == << "/", "v" >>

\* The (path, method, operation) members a document is built from, in the
\* key order of its maps.  The first is a path whose value is no object.
EntryPool ==
  << [ path |-> pathN, object |-> FALSE, method |-> << >>,
       operation |-> Operation(None, None, None, None, None) ],
     [ path |-> pathP, object |-> TRUE, method |-> sGet,
       operation |-> Operation(
         Some(<< Some(<< " ", "U", "s", "e", "r", "s" >>) >>), None,
         Some(<< Param(Some(sId), Some(sInteger), Some(TRUE), None),
                 Param(Some(sQ), Some(sString), None, None) >>),
         None,
         Some(<< Response(s200, Some(RefNode(RefTo(sUser))), None) >>)) ],
     [ path |-> pathP, object |-> TRUE, method |-> sPost,
       operation |-> Operation(
         Some(<< Some(sUsers) >>), Some(sGetUById),
         Some(<< Param(Some(sQ), Some(sBoolean), Some(FALSE), None),
                 Param(None, None, None, None) >>),
         None,
         Some(<< Response(sDefault, None,
                          Some(ArrayNode(RefNode(RefTo(sUser))))) >>)) ],
     [ path |-> pathP, object |-> TRUE, method |-> sTrace,
       operation |-> Operation(Some(<< Some(sUsers) >>), None, None, None, None) ],
     [ path |-> pathUBy, object |-> TRUE, method |-> sGet,
       operation |-> Operation(
         Some(<< Some(sUsers) >>), None, None,
         Some(RefNode(RefTo(sUser))), None) ],
     [ path |-> pathUId, object |-> TRUE, method |-> sGet,
       operation |-> Operation(
         Some(<< Some(sUsers) >>), None,
         Some(<< Param(Some(sId), Some(sInteger), Some(TRUE),
                       Some(RefNode(RefTo(<< >>)))) >>),
         Some(RefNode(RefTo(sPet))), None) ],
     [ path |-> pathUId, object |-> TRUE, method |-> sPost,
       operation |-> Operation(
         None, Some(sGetUById),
         Some(<< Param(None, None, None, Some(TypeNode(sObject))),
                 Param(None, None, None, Some(RefNode(RefTo(sPet)))) >>),
         None,
         Some(<< Response(s201, Some(TypeNode(sString)), None) >>)) ],
     [ path |-> pathV, object |-> TRUE, method |-> sDelete,
       operation |-> Operation(
         Some(<< None, Some(sPets) >>), None, Some(<< >>), None, Some(<< >>)) ],
     [ path |-> pathV, object |-> TRUE, method |-> sGet,
       operation |-> Operation(
         Some(<< Some(sPets), Some(sUsers) >>), None,
         Some(<< Param(None, None, None, Some(TypeNode(sObject))),
                 Param(Some(sN), Some(sFile), None, None) >>),
         None,
         Some(<< Response(sDefault, Some(RefNode(RefTo(sPet))), None) >>)) ] >>

\* The named schemas a schema container is built from, in key order
SchemaPool ==
  << [ name |-> sPet,
       schema |-> Schema(Some(MapInsert(EmptyMap, << "t" >>, RefNode(RefTo(sUser)))),
                         Some(<< None >>), None) ],
     [ name |-> sPetsRequest,
       schema |-> Schema(Some(MapInsert(EmptyMap, sN, TypeNode(sBoolean))),
                         Some(<< Some(sN), None >>), None) ],
     [ name |-> sUs,
       schema |-> Schema(None, Some(<< None >>), None) ],
     [ name |-> sUser,
       schema |-> Schema(
         Some(MapInsert(MapInsert(EmptyMap, sId, TypeNode(sInteger)),
                        sN, TypeNode(sString))),
         Some(<< Some(sId) >>), Some(<< "d" >>)) ],
     [ name |-> sUsersRequest,
       schema |-> Schema(
         Some(MapInsert(EmptyMap, << "x" >>, ArrayNode(RefNode(RefTo(sPet))))),
         None, Some(<< "d" >>)) ] >>

\* The subsequence of a pool at a set of indexes
RECURSIVE Pick(_, _, _)
Pick(pool, I, i) ==
  IF i > Len(pool) THEN << >>
  ELSE (IF i \in I THEN << pool[i] >> ELSE << >>) \o Pick(pool, I, i + 1)

\* The `paths` object of the members chosen: one entry per path, its value
\* the (method, operation) pairs of that path, or None when no object
PathsOf(entries) ==
  LET first(i) == \A j \in 1..(i - 1) : entries[j].path # entries[i].path
      firsts == SelectSeq([i \in 1..Len(entries) |-> i], first)
      item(p) == SelectSeq(entries, LAMBDA e : e.path = p)
  IN [ k \in 1..Len(firsts) |->
       LET e == entries[firsts[k]] IN
       [ path |-> e.path,
         item |-> IF e.object
                  THEN Some([ i \in 1..Len(item(e.path)) |->
                              [ method |-> item(e.path)[i].method,
                                operation |-> item(e.path)[i].operation ] ])
                  ELSE None ] ]

\* The container with the schemas User and UsersRequest
UserSchemas ==
  SelectSeq(SchemaPool, LAMBDA d : d.name \in { sUser, sUsersRequest })

Subsets(n, max) == { I \in SUBSET (1..n) : Cardinality(I) <= max }

Document(paths, definitions, components) ==
  [ paths |-> paths, definitions |-> definitions, components |-> components ]

\* swagger.paths : Option<Option<paths object>>: the key, then as_object
Documents ==
  { Document(Some(Some(PathsOf(Pick(EntryPool, I, 1)))),
             Some(Some(Pick(SchemaPool, J, 1))), None) :
      I \in Subsets(Len(EntryPool), MaxOps),
      J \in Subsets(Len(SchemaPool), MaxSchemas) }
  \cup
  { Document(Some(Some(PathsOf(Pick(EntryPool, I, 1)))), d[1], d[2]) :
      I \in Subsets(Len(EntryPool), MaxOps),
      d \in { << None, None >>,
              << None, Some(None) >>,
              << None, Some(Some(Some(UserSchemas))) >>,
              << Some(None), Some(Some(Some(UserSchemas))) >> } }
  \cup
  { Document(p, Some(Some(UserSchemas)), None) :
      p \in { None, Some(None) } }

sProject == << "p", "r", "o", "j" >>
sRequestLib == << "import { request } from '@/services/request';" >>
sApi == << "/", "a", "p", "i", "/" >>

Args(tags) ==
  [ swagger |-> << "s", ".", "j", "s", "o", "n" >>, out |-> None,
    service_path |-> None, tags |-> tags, request_lib_path |-> Some(sRequestLib),
    project_name |-> Some(sProject), api_prefix |-> Some(sApi) ]

\* The values of --tags
TagArgs ==
  { None,
    Some(sUsers),
    Some(<< " ", "U", "s", "e", "r", "s", " ", ",", "d", "e", "f", "a", "u", "l", "t", "," >>) }

(***************************************************************************)
(* The state of one invocation of the program, and of the output directory *)
(***************************************************************************)
VARIABLES
  file,          \* the swagger file: [readable, json : Option<document>]
  args,          \* the command line
  files,         \* the output file system: path -> content
  dirs,          \* the directories that exist
  pc,            \* where main is
  err,           \* the error the run ended in, "" when none
  swagger,       \* Option<document>: swagger_json of main
  tag_filters,   \* Option<set of tags>: tag_filters of main
  schemas_root,  \* schemas_root of parse_swagger
  service_map,   \* service_map of parse_swagger: name -> Service
  idx,           \* the next (path, method) member of the first loop
  sidx,          \* the next schema of the second loop
  kidx,          \* the next service of its inner loop
  services,      \* Vec<Service>: the result of parse_swagger
  widx,          \* the next service of write_services
  run,           \* the number of this invocation
  run_outputs    \* history: the output files at the end of each completed run

vars == << file, args, files, dirs, pc, err, swagger, tag_filters, schemas_root,
           service_map, idx, sidx, kidx, services, widx, run, run_outputs >>

\* The (path, method, operation) members of `paths` in iteration order: the
\* two nested loops of parse_swagger, a path whose value is no object skipped
RECURSIVE FlatEntries(_)
FlatEntries(paths) ==
  IF paths = << >> THEN << >>
  ELSE LET p == Head(paths) IN
       (IF IsSome(p.item)
        THEN [ i \in 1..Len(Unwrap(p.item)) |->
               [ path |-> p.path, method |-> Unwrap(p.item)[i].method,
                 operation |-> Unwrap(p.item)[i].operation ] ]
        ELSE << >>)
       \o FlatEntries(Tail(paths))

Entries == FlatEntries(Unwrap(Unwrap(Unwrap(swagger).paths)))

\* The tag an operation is grouped under (parse_swagger, lines 38-39)
TagNormalized(operation) ==
  LET tag == ExtractTag(operation) IN
  NormalizeTag(IF IsSome(tag) THEN Unwrap(tag) ELSE sDefault)

\* The tag filter never applied
PassesFilterAlways(filters, tag_normalized) == TRUE

\* The tag filter of parse_swagger, lines 44-48
PassesFilter(filters, tag_normalized) ==
  IsSome(filters) => tag_normalized \in Unwrap(filters)

\* An insert that keeps the definition already in the table
AttachInsertKeepsFirst(type_definitions, name, type_def) ==
  IF name \in DOMAIN type_definitions THEN type_definitions
  ELSE MapInsert(type_definitions, name, type_def)

\* service.type_definitions.insert(name, type_def) of the second loop
AttachInsert(type_definitions, name, type_def) ==
  MapInsert(type_definitions, name, type_def)

TypeOK ==
  /\ pc \in { "main", "parse", "group", "attach", "write", "write_api",
              "write_types", "done", "failed", "panicked" }
  /\ run \in 1..MaxRuns

Init ==
  /\ file \in ({ [ readable |-> TRUE, json |-> Some(d) ] : d \in Documents }
               \cup { [ readable |-> FALSE, json |-> None ],
                      [ readable |-> TRUE, json |-> None ] })
  /\ args \in { Args(t) : t \in TagArgs }
  /\ files = EmptyMap
  /\ dirs = {}
  /\ pc = "main"
  /\ err = ""
  /\ swagger = None
  /\ tag_filters = None
  /\ schemas_root = None
  /\ service_map = EmptyMap
  /\ idx = 1
  /\ sidx = 1
  /\ kidx = 1
  /\ services = << >>
  /\ widx = 1
  /\ run = 1
  /\ run_outputs = << >>

\* main creating the output directory before it reads the file
ReadSwaggerFileAfterEnsureDir ==
  /\ pc = "main"
  /\ dirs' = dirs \cup { ServicesDir(args) }
  /\ IF ~file.readable
     THEN /\ pc' = "failed"
          /\ err' = "Failed to read swagger file"
          /\ UNCHANGED << swagger, tag_filters >>
     ELSE IF ~IsSome(file.json)
     THEN /\ pc' = "failed"
          /\ err' = "Invalid JSON in swagger file"
          /\ UNCHANGED << swagger, tag_filters >>
     ELSE /\ pc' = "parse"
          /\ swagger' = file.json
          /\ tag_filters' = TagFilters(args.tags)
          /\ err' = err
  /\ UNCHANGED << file, args, files, schemas_root, service_map, idx, sidx,
                  kidx, services, widx, run, run_outputs >>

\* main, lines 20-27: read_swagger_file, then the tag filter
ReadSwaggerFile ==
  /\ pc = "main"
  /\ IF ~file.readable
     THEN /\ pc' = "failed"
          /\ err' = "Failed to read swagger file"
          /\ UNCHANGED << swagger, tag_filters >>
     ELSE IF ~IsSome(file.json)
     THEN /\ pc' = "failed"
          /\ err' = "Invalid JSON in swagger file"
          /\ UNCHANGED << swagger, tag_filters >>
     ELSE /\ pc' = "parse"
          /\ swagger' = file.json
          /\ tag_filters' = TagFilters(args.tags)
          /\ err' = err
  /\ UNCHANGED << file, args, files, dirs, schemas_root, service_map, idx, sidx,
                  kidx, services, widx, run, run_outputs >>

\* parse_swagger, lines 21-28
ParseSwaggerBegin ==
  /\ pc = "parse"
  /\ IF IsSome(Unwrap(swagger).paths) /\ IsSome(Unwrap(Unwrap(swagger).paths))
     THEN /\ pc' = "group"
          /\ schemas_root' = FindSchemas(Unwrap(swagger))
          /\ service_map' = EmptyMap
          /\ idx' = 1
          /\ err' = err
     ELSE /\ pc' = "failed"
          /\ err' = "No 'paths' found in swagger file"
          /\ UNCHANGED << schemas_root, service_map, idx >>
  /\ UNCHANGED << file, args, files, dirs, swagger, tag_filters, sidx, kidx,
                  services, widx, run, run_outputs >>

\* The first loop creating the service of an operation before the tag
\* filter is applied
GroupOperationCreatesServiceFirst ==
  /\ pc = "group"
  /\ idx <= Len(Entries)
  /\ LET e == Entries[idx]
         tag_normalized == TagNormalized(e.operation)
         map1 == GetService(service_map, tag_normalized)
     IN IF ~IsValidHttpMethod(e.method) THEN service_map' = service_map
        ELSE IF PassesFilter(tag_filters, tag_normalized)
        THEN LET parsed == ParseOperation(e.operation, e.path, e.method,
                                          map1[tag_normalized])
             IN service_map' =
                  [ map1 EXCEPT ![tag_normalized] =
                      [ name |-> @.name,
                        operations |-> Append(@.operations, parsed.api_op),
                        type_definitions |-> parsed.type_definitions ] ]
        ELSE service_map' = map1
  /\ idx' = idx + 1
  /\ UNCHANGED << file, args, files, dirs, pc, err, swagger, tag_filters,
                  schemas_root, sidx, kidx, services, widx, run, run_outputs >>

\* parse_swagger, lines 31-61: one (path, method) member of the first loop
GroupOperation ==
  /\ pc = "group"
  /\ idx <= Len(Entries)
  /\ LET e == Entries[idx]
         tag_normalized == TagNormalized(e.operation)
     IN IF IsValidHttpMethod(e.method) /\ PassesFilter(tag_filters, tag_normalized)
        THEN LET map1 == GetService(service_map, tag_normalized)
                 parsed == ParseOperation(e.operation, e.path, e.method,
                                          map1[tag_normalized])
             IN service_map' =
                  [ map1 EXCEPT ![tag_normalized] =
                      [ name |-> @.name,
                        operations |-> Append(@.operations, parsed.api_op),
                        type_definitions |-> parsed.type_definitions ] ]
        ELSE service_map' = service_map
  /\ idx' = idx + 1
  /\ UNCHANGED << file, args, files, dirs, pc, err, swagger, tag_filters,
                  schemas_root, sidx, kidx, services, widx, run, run_outputs >>

\* parse_swagger, line 63: the first loop is over
GroupDone ==
  /\ pc = "group"
  /\ idx > Len(Entries)
  /\ pc' = "attach"
  /\ sidx' = 1
  /\ kidx' = 1
  /\ UNCHANGED << file, args, files, dirs, err, swagger, tag_filters, schemas_root,
                  service_map, idx, services, widx, run, run_outputs >>

\* The schemas the second loop iterates: none when there is no container or
\* the container is no object
SchemaObj ==
  IF IsSome(schemas_root) /\ IsSome(Unwrap(schemas_root))
  THEN Unwrap(Unwrap(schemas_root)) ELSE << >>

ServiceNames == SortedKeys(DOMAIN service_map)

\* parse_swagger, lines 66-74: one (schema, service) pair of the second loop
AttachType ==
  /\ pc = "attach"
  /\ sidx <= Len(SchemaObj)
  /\ kidx <= Len(ServiceNames)
  /\ LET name == SchemaObj[sidx].name
         schema == SchemaObj[sidx].schema
         key == ServiceNames[kidx]
         service == service_map[key]
         include == ShouldIncludeType(name, service.operations)
     IN IF include /\ ExtractTypeDefinitionPanics(schema)
        THEN /\ pc' = "panicked"
             /\ err' = "required field is not a string"
             /\ UNCHANGED << service_map, sidx, kidx >>
        ELSE /\ service_map' =
                  IF include
                  THEN [ service_map EXCEPT ![key].type_definitions =
                           AttachInsert(@, name, ExtractTypeDefinition(name, schema)) ]
                  ELSE service_map
             /\ IF kidx < Len(ServiceNames)
                THEN kidx' = kidx + 1 /\ sidx' = sidx
                ELSE kidx' = 1 /\ sidx' = sidx + 1
             /\ UNCHANGED << pc, err >>
  /\ UNCHANGED << file, args, files, dirs, swagger, tag_filters, schemas_root, idx,
                  services, widx, run, run_outputs >>

\* parse_swagger, line 78, and write_services, lines 12-13
ParseSwaggerReturn ==
  /\ pc = "attach"
  /\ sidx > Len(SchemaObj) \/ Len(ServiceNames) = 0
  /\ services' = MapValues(service_map)
  /\ dirs' = dirs \cup { ServicesDir(args) }
  /\ widx' = 1
  /\ pc' = "write_api"
  /\ UNCHANGED << file, args, files, err, swagger, tag_filters, schemas_root,
                  service_map, idx, sidx, kidx, run, run_outputs >>

\* write_api_file_with_request_lib for the next service
WriteApiFile ==
  /\ pc = "write_api"
  /\ widx <= Len(services)
  /\ files' = FsWrite(files, ServiceFilePath(ServicesDir(args), services[widx]),
                ApiFileContent(services[widx], Unwrap(args.request_lib_path),
                               IF IsSome(args.api_prefix)
                               THEN Unwrap(args.api_prefix) ELSE << >>))
  /\ pc' = "write_types"
  /\ UNCHANGED << file, args, dirs, err, swagger, tag_filters, schemas_root,
                  service_map, idx, sidx, kidx, services, widx, run, run_outputs >>

\* write_types_file for the same service
WriteTypesFile ==
  /\ pc = "write_types"
  /\ files' = FsAppendOrWrite(files,
                ServiceFilePath(ServicesDir(args), services[widx]),
                TypesFileContent(services[widx]))
  /\ widx' = widx + 1
  /\ pc' = "write_api"
  /\ UNCHANGED << file, args, dirs, err, swagger, tag_filters, schemas_root,
                  service_map, idx, sidx, kidx, services, run, run_outputs >>

\* main, lines 33-35: every service is written
MainDone ==
  /\ pc = "write_api"
  /\ widx > Len(services)
  /\ pc' = "done"
  /\ run_outputs' = Append(run_outputs, files)
  /\ UNCHANGED << file, args, files, dirs, err, swagger, tag_filters, schemas_root,
                  service_map, idx, sidx, kidx, services, widx, run >>

\* The program is invoked again, on the same file with the same command
\* line, over the output directory as the run before left it
Rerun ==
  /\ pc = "done"
  /\ run < MaxRuns
  /\ run' = run + 1
  /\ pc' = "main"
  /\ err' = ""
  /\ swagger' = None
  /\ tag_filters' = None
  /\ schemas_root' = None
  /\ service_map' = EmptyMap
  /\ idx' = 1
  /\ sidx' = 1
  /\ kidx' = 1
  /\ services' = << >>
  /\ widx' = 1
  /\ UNCHANGED << file, args, files, dirs, run_outputs >>

Next ==
  \/ ReadSwaggerFile
  \/ ParseSwaggerBegin
  \/ GroupOperation
  \/ GroupDone
  \/ AttachType
  \/ ParseSwaggerReturn
  \/ WriteApiFile
  \/ WriteTypesFile
  \/ MainDone
  \/ Rerun

Spec == Init /\ [][Next]_vars

(***************************************************************************)
(* Properties                                                              *)
(***************************************************************************)
\* parse_swagger has returned its Vec<Service>
AfterParse == pc \in { "write_api", "write_types", "done" }

\* The members of the document parse_swagger has to group: a valid method
\* and a tag that passes the filter.  The tag is computed here from str's
\* own operations, as the specification words it.
GroupingTag(operation) ==
  IF IsSome(operation.tags) /\ Len(Unwrap(operation.tags)) > 0
     /\ IsSome(Unwrap(operation.tags)[1])
  THEN ToLowercase(Trim(Unwrap(Unwrap(operation.tags)[1])))
  ELSE sDefault
ValidMethods == { sGet, sPost, sPut, sDelete, sPatch, sHead, sOptions }
Grouped(e) ==
  /\ e.method \in ValidMethods
  /\ IsSome(tag_filters) => GroupingTag(e.operation) \in Unwrap(tag_filters)

\* The places (service, position) of a (path, method) pair in the result
PlacesOf(e) ==
  { kj \in { << k, j >> : k \in 1..Len(services), j \in 1..MaxOps + 1 } :
      /\ kj[2] <= Len(services[kj[1]].operations)
      /\ services[kj[1]].operations[kj[2]].path = e.path
      /\ services[kj[1]].operations[kj[2]].method = ToUppercase(e.method) }

\* C1: after parse_swagger every (path, method) pair with a valid method and
\* a tag that passes the filter is in the result exactly once, in the
\* service named by the trimmed, lower-cased first tag, or in `default`.
C1_EveryOperationInOneService ==
  AfterParse =>
    \A i \in 1..Len(Entries) :
      Grouped(Entries[i]) =>
        /\ Cardinality(PlacesOf(Entries[i])) = 1
        /\ \A kj \in PlacesOf(Entries[i]) :
             services[kj[1]].name = GroupingTag(Entries[i].operation)

\* C1 witness: a finished run with the services `default` and `users`, the
\* latter from a tag written " Users", the former from an untagged operation
C1_Witness ==
  /\ pc = "done"
  /\ Len(services) = 2
  /\ services[1].name = sDefault
  /\ services[2].name = sUsers
  /\ \E i \in 1..Len(Entries) :
       /\ Grouped(Entries[i])
       /\ Entries[i].operation.tags = Some(<< Some(<< " " >> \o CapitalizeFirst(sUsers)) >>)
  /\ \E i \in 1..Len(Entries) :
       Grouped(Entries[i]) /\ ~IsSome(Entries[i].operation.tags)

\* C2, state part: with an allow-list every service is named by a member of
\* the list, and holds only operations whose tag is in the list; without one
\* every tag of an operation with a valid method has its service.
C2_ServicesWithinFilter ==
  /\ pc \in { "group", "attach", "panicked" } \cup { "write_api", "write_types", "done" } =>
       /\ IsSome(tag_filters) => DOMAIN service_map \subseteq Unwrap(tag_filters)
       /\ \A n \in DOMAIN service_map :
            \A j \in 1..Len(service_map[n].operations) :
              \E i \in 1..Len(Entries) :
                /\ Entries[i].path = service_map[n].operations[j].path
                /\ ToUppercase(Entries[i].method) = service_map[n].operations[j].method
                /\ Grouped(Entries[i])
  /\ AfterParse =>
       /\ IsSome(tag_filters) =>
            \A k \in 1..Len(services) : services[k].name \in Unwrap(tag_filters)
       /\ ~IsSome(tag_filters) =>
            \A i \in 1..Len(Entries) :
              Entries[i].method \in ValidMethods =>
                \E k \in 1..Len(services) :
                  services[k].name = GroupingTag(Entries[i].operation)

\* C2, step part: the step of the first loop over an operation whose tag is
\* outside the list leaves every service as it was
C2_FilteredStep ==
  (/\ pc = "group"
   /\ idx <= Len(Entries)
   /\ IsSome(tag_filters)
   /\ GroupingTag(Entries[idx].operation) \notin Unwrap(tag_filters))
  => service_map' = service_map

\* C2: with a tag allow-list only services whose normalized tag is in the
\* list are returned and no operation outside the list is parsed or changes
\* a service; without a list every tag found yields a service, `default`
\* for the untagged operations included.
C2_TagFilter == [] C2_ServicesWithinFilter /\ [][C2_FilteredStep]_vars

\* C2 witness: a finished run with an allow-list, a service returned, and an
\* operation of the document that the list kept out
C2_Witness ==
  /\ pc = "done"
  /\ IsSome(tag_filters)
  /\ services # << >>
  /\ \E i \in 1..Len(Entries) :
       Entries[i].method \in ValidMethods /\ ~Grouped(Entries[i])

\* C3: in the result every entry of a service's type table has its name
\* contained in the request or response type of an operation of that service
C3_TypesAreReferenced ==
  AfterParse =>
    \A k \in 1..Len(services) :
      \A n \in DOMAIN services[k].type_definitions :
        \E j \in 1..Len(services[k].operations) :
          \/ Contains(services[k].operations[j].request_type, n)
          \/ Contains(services[k].operations[j].response_type, n)

\* C3 witness: a service holding a synthesized type and a schema-derived
\* type, the latter attached only through the substring match
C3_Witness ==
  /\ pc = "done"
  /\ \E k \in 1..Len(services) :
       /\ sUser \in DOMAIN services[k].type_definitions
       /\ CustomTypeName(services[k].name) \in DOMAIN services[k].type_definitions
       /\ \A j \in 1..Len(services[k].operations) :
            /\ services[k].operations[j].request_type # sUser
            /\ services[k].operations[j].response_type # sUser
  /\ \E i \in 1..Len(SchemaObj) : SchemaObj[i].name = sUser

\* C4 (as claimed): within one service of the result no two operations have
\* the same function_name, from `operationId` or synthesized
C4_FunctionNamesUnique ==
  AfterParse =>
    \A k \in 1..Len(services) :
      \A i, j \in 1..Len(services[k].operations) :
        i # j => services[k].operations[i].function_name
                 # services[k].operations[j].function_name

\* The operation of the result parsed from a member of the document
ParsedFrom(e) ==
  LET kj == CHOOSE x \in PlacesOf(e) : TRUE IN services[kj[1]].operations[kj[2]]
ServiceOf(e) ==
  LET kj == CHOOSE x \in PlacesOf(e) : TRUE IN services[kj[1]]

\* An operation with no schema-based request type and a non-empty flat
\* `parameters` list
HasFlatParameters(operation) ==
  /\ SchemaRequestType(operation) = sAny
  /\ IsSome(operation.parameters)
  /\ Unwrap(operation.parameters) # << >>

\* C5 (as claimed, outside the case of C7: no schema of the container has
\* the synthesized name): every operation with flat parameters and no
\* schema-based request type has the request type <Service>Request, and the
\* service's table holds under that name the fields of that operation's
\* parameters, also when the service has several such operations
C5_SynthesizedRequestType ==
  AfterParse =>
    \A i \in 1..Len(Entries) :
      (/\ Grouped(Entries[i])
       /\ HasFlatParameters(Entries[i].operation)
       /\ \A x \in 1..Len(SchemaObj) :
            SchemaObj[x].name # CustomTypeName(GroupingTag(Entries[i].operation)))
      => LET type_name == CustomTypeName(GroupingTag(Entries[i].operation))
             service == ServiceOf(Entries[i])
         IN /\ ParsedFrom(Entries[i]).request_type = type_name
            /\ type_name \in DOMAIN service.type_definitions
            /\ service.type_definitions[type_name].fields
               = CustomFields(Unwrap(Entries[i].operation.parameters), EmptyMap)

\* The request type by the priority order as claimed: a source that is
\* absent, or resolves to `any` or to the empty name, gives way to the next
RECURSIVE FirstResolvedParameter(_)
FirstResolvedParameter(params) ==
  IF params = << >> THEN None
  ELSE IF IsSome(Head(params).schema)
          /\ ExtractTypeNameFromSchema(Unwrap(Head(params).schema)) \notin { sAny, << >> }
  THEN Some(ExtractTypeNameFromSchema(Unwrap(Head(params).schema)))
  ELSE FirstResolvedParameter(Tail(params))
ClaimedRequestType(operation, service_name) ==
  LET params == IF IsSome(operation.parameters)
                THEN Unwrap(operation.parameters) ELSE << >>
      a == FirstResolvedParameter(params)
      b == IF IsSome(operation.requestBody)
           THEN ExtractTypeNameFromSchema(Unwrap(operation.requestBody))
           ELSE sAny
  IN IF IsSome(a) THEN Unwrap(a)
     ELSE IF b \notin { sAny, << >> } THEN b
     ELSE IF params # << >> THEN CustomTypeName(service_name)
     ELSE sAny

\* C6 (as claimed): the request type is the first of (a) the first parameter
\* schema that resolves, (b) the requestBody schema, (c) the synthesized
\* name when there are parameters, (d) `any`; a lower source is used whenever
\* the higher ones are absent or unresolved, an empty name included
C6_RequestTypePriority ==
  AfterParse =>
    \A i \in 1..Len(Entries) :
      Grouped(Entries[i]) =>
        ParsedFrom(Entries[i]).request_type
        = ClaimedRequestType(Entries[i].operation, GroupingTag(Entries[i].operation))

\* The service named n holds a request type synthesized from flat parameters
SynthesizedIn(n) ==
  \E i \in 1..Len(Entries) :
    /\ i < idx
    /\ Grouped(Entries[i])
    /\ HasFlatParameters(Entries[i].operation)
    /\ GroupingTag(Entries[i].operation) = n

\* The schemas of the container named as the type synthesized for service n
SameNamedSchemas(n) ==
  { x \in 1..Len(SchemaObj) : SchemaObj[x].name = CustomTypeName(n) }

\* C7 (as claimed): a schema of the container named as a synthesized type
\* replaces it in the attachment pass: the table of the result holds the
\* schema-derived definition and the pass signals no error at that schema
C7_SchemaReplacesSynthesized ==
  pc \in { "attach", "panicked", "write_api", "write_types", "done" } =>
    \A n \in DOMAIN service_map :
      \A x \in SameNamedSchemas(n) :
        SynthesizedIn(n) =>
          /\ ~(pc = "panicked" /\ sidx = x /\ ServiceNames[kidx] = n)
          /\ AfterParse =>
               service_map[n].type_definitions[CustomTypeName(n)]
               = ExtractTypeDefinition(SchemaObj[x].name, SchemaObj[x].schema)

\* A `required` array with an entry that is no string
NonStringRequired(schema) ==
  /\ IsSome(schema.required)
  /\ \E i \in 1..Len(Unwrap(schema.required)) : Unwrap(schema.required)[i] = None

\* C7 amended, the result: when parse_swagger returns, the table holds the
\* schema-derived definition under the synthesized name
C7_ResultHoldsSchemaType ==
  AfterParse =>
    \A k \in 1..Len(services) :
      \A x \in SameNamedSchemas(services[k].name) :
        SynthesizedIn(services[k].name) =>
          /\ CustomTypeName(services[k].name) \in DOMAIN services[k].type_definitions
          /\ services[k].type_definitions[CustomTypeName(services[k].name)]
             = [ name |-> SchemaObj[x].name,
                 fields |-> ExtractTypeDefinition(SchemaObj[x].name,
                                                  SchemaObj[x].schema).fields,
                 description |-> SchemaObj[x].schema.description ]

\* C7 amended, the parse step: the step of the first loop that parses an
\* operation with flat parameters leaves the synthesized type in the table
\* of its service, and the attachment pass has not begun
C7_InsertedAtParse ==
  (/\ pc = "group"
   /\ idx <= Len(Entries)
   /\ Grouped(Entries[idx])
   /\ HasFlatParameters(Entries[idx].operation))
  => LET n == GroupingTag(Entries[idx].operation) IN
     /\ pc' = "group"
     /\ n \in DOMAIN service_map'
     /\ CustomTypeName(n) \in DOMAIN service_map'[n].type_definitions
     /\ service_map'[n].type_definitions[CustomTypeName(n)].description = None
     /\ service_map'[n].type_definitions[CustomTypeName(n)].fields
        = CustomFields(Unwrap(Entries[idx].operation.parameters), EmptyMap)

\* C7 amended, the attachment step at a same-named schema: the synthesized
\* definition is replaced and no error is signalled, unless the schema has
\* `properties` and a non-string `required` entry, and then the run panics
C7_ReplacedSilently ==
  (/\ pc = "attach"
   /\ sidx <= Len(SchemaObj)
   /\ kidx <= Len(ServiceNames)
   /\ sidx \in SameNamedSchemas(ServiceNames[kidx])
   /\ SynthesizedIn(ServiceNames[kidx]))
  => LET n == ServiceNames[kidx]
         schema == SchemaObj[sidx].schema
     IN IF IsSome(schema.properties) /\ NonStringRequired(schema)
        THEN pc' = "panicked" /\ service_map' = service_map
        ELSE /\ pc' = "attach"
             /\ err' = ""
             /\ service_map'[n].type_definitions[CustomTypeName(n)].description
                = schema.description
             /\ DOMAIN service_map'[n].type_definitions[CustomTypeName(n)].fields
                = (IF IsSome(schema.properties)
                   THEN DOMAIN Unwrap(schema.properties) ELSE {})

\* C7 (amended): a synthesized request type is in its service's table from
\* the parse of its operation on, before the attachment pass; a schema of
\* the container with that name replaces it in the attachment pass without
\* any conflict being signalled, so the table of the result holds the
\* schema-derived definition; the run panics instead when that schema has a
\* `properties` object and a non-string `required` entry.
C7_LastWriterWins ==
  [] C7_ResultHoldsSchemaType /\ [][C7_InsertedAtParse /\ C7_ReplacedSilently]_vars

\* C7 witness: the result of a run whose service `users` had a synthesized
\* UsersRequest, now the definition derived from the schema UsersRequest
C7_Witness ==
  /\ AfterParse
  /\ \E k \in 1..Len(services) :
       /\ SynthesizedIn(services[k].name)
       /\ SameNamedSchemas(services[k].name) # {}
       /\ services[k].type_definitions[CustomTypeName(services[k].name)].description
          # None

\* The types content as the specification describes it: the banner, a
\* declaration per entry of the table in ascending name order, then a
\* placeholder per request or response type an operation references that
\* is no key of the table and not `any`
PlaceholderFor(table, type_name) ==
  IF type_name \in DOMAIN table \/ type_name = sAny THEN << >>
  ELSE << "export type " >> \o type_name \o << " = any;", "\n\n" >>
DescribedTypesContent(service) ==
  LET names == SortedKeys(DOMAIN service.type_definitions)
      body ==
        << "/**\n", " * Type definitions for " >> \o service.name
        \o << " service\n", " */", "\n\n" >>
        \o Concat([ i \in 1..Len(names) |->
             ToTypescript(service.type_definitions[names[i]]) \o << "\n\n" >> ])
        \o Concat([ i \in 1..Len(service.operations) |->
             PlaceholderFor(service.type_definitions,
                            service.operations[i].request_type)
             \o PlaceholderFor(service.type_definitions,
                               service.operations[i].response_type) ])
  IN TrimEnd(body) \o << "\n" >>

\* The file of the k-th service of the result
FileOf(k) == ServiceFilePath(ServicesDir(args), services[k])

\* The services of this run whose two writes are done
Written == 1..(IF pc = "done" THEN Len(services) ELSE widx - 1)

C9_RunsAreIdentical ==
  /\ \A i, j \in 1..Len(run_outputs) : run_outputs[i] = run_outputs[j]
  /\ pc = "done" =>
       /\ run_outputs[Len(run_outputs)] = files
       /\ DOMAIN files = { FileOf(k) : k \in 1..Len(services) }
       /\ \A k \in 1..Len(services) :
            files[FileOf(k)]
            = ApiFileContent(services[k], Unwrap(args.request_lib_path),
                             Unwrap(args.api_prefix))
              \o TypesFileContent(services[k])

\* C9 witness: the second run is over, after writing the files of two
\* services into the directory the first run filled
C9_Witness ==
  /\ pc = "done"
  /\ run = 2
  /\ Len(run_outputs) = 2
  /\ Len(services) = 2
  /\ Cardinality(DOMAIN files) = 2

\* C10 (as claimed): no run over a container with a schema whose `required`
\* array has a non-string entry gets through parse_swagger
C10_NonStringRequiredIsFatal ==
  AfterParse =>
    \A x \in 1..Len(SchemaObj) : ~NonStringRequired(SchemaObj[x].schema)

\* The schema is looked at for a service: its name is contained in a
\* request or response type of the service
ReferencedBy(name, operations) ==
  \E j \in 1..Len(operations) :
    \/ Contains(operations[j].request_type, name)
    \/ Contains(operations[j].response_type, name)

\* C10 (amended): the run ends in a panic whenever a schema of the container
\* that has a `properties` object and whose name is contained in a request
\* or response type of an operation of a service has a non-string entry in
\* its `required` array; the run panics for no other schema.
C10_ExtractedSchemaIsFatal ==
  /\ AfterParse =>
       \A x \in 1..Len(SchemaObj) :
         \A k \in 1..Len(services) :
           ~(/\ NonStringRequired(SchemaObj[x].schema)
             /\ IsSome(SchemaObj[x].schema.properties)
             /\ ReferencedBy(SchemaObj[x].name, services[k].operations))
  /\ pc = "panicked" =>
       /\ NonStringRequired(SchemaObj[sidx].schema)
       /\ IsSome(SchemaObj[sidx].schema.properties)
       /\ ReferencedBy(SchemaObj[sidx].name,
                       service_map[ServiceNames[kidx]].operations)

\* C10 witness: the run has panicked in the attachment pass
C10_Witness ==
  /\ pc = "panicked"
  /\ err = "required field is not a string"
  /\ NonStringRequired(SchemaObj[sidx].schema)

\* Loading and parsing are not both done: main is before the return of
\* parse_swagger, or the run has ended in an error
BeforeOutput == pc \in { "main", "parse", "group", "attach", "failed", "panicked" }

\* C11, state part: a run that ended in an error of loading or parsing left
\* the output directory as it found it, and the error is the one of its
\* cause: an unreadable file, invalid JSON, or no `paths` object
C11_FailedRunWroteNothing ==
  /\ (run = 1 /\ BeforeOutput) => files = EmptyMap /\ dirs = {}
  /\ pc = "failed" =>
       /\ ~file.readable => err = "Failed to read swagger file"
       /\ (file.readable /\ ~IsSome(file.json)) => err = "Invalid JSON in swagger file"
       /\ (file.readable /\ IsSome(file.json)) =>
            /\ err = "No 'paths' found in swagger file"
            /\ \/ Unwrap(file.json).paths = None
               \/ Unwrap(Unwrap(file.json).paths) = None
  /\ pc \notin { "main", "failed" } => file.readable /\ IsSome(file.json)
  /\ pc \notin { "main", "parse", "failed" } =>
       /\ IsSome(Unwrap(file.json).paths)
       /\ IsSome(Unwrap(Unwrap(file.json).paths))

\* C11, step part: a step that creates a directory or writes a file is the
\* return of parse_swagger into write_services, or a step after it
C11_OutputOnlyAfterParse ==
  (files' # files \/ dirs' # dirs) =>
    \/ pc = "attach" /\ pc' = "write_api" /\ files' = files
    \/ pc \in { "write_api", "write_types" }

\* C11: no directory or file is created or written before loading and
\* parsing have both completed: an unreadable file, invalid JSON or a
\* document without a `paths` object ends the run in an error with the
\* output directory unchanged.
C11_NoOutputBeforeParse ==
  [] C11_FailedRunWroteNothing /\ [][C11_OutputOnlyAfterParse]_vars

\* C11 witness: the run over a document without a `paths` object has failed
\* and nothing exists in the output directory
C11_Witness ==
  /\ pc = "failed"
  /\ err = "No 'paths' found in swagger file"
  /\ files = EmptyMap
  /\ dirs = {}

\* C12: every service of the map, and so every service parse_swagger
\* returns and write_services writes, has at least one operation; the
\* `service.operations.len() - 1` of write_api_file_with_request_lib is
\* never below zero.
C12_NoEmptyService ==
  /\ pc \in { "group", "attach", "panicked" } =>
       \A n \in DOMAIN service_map : Len(service_map[n].operations) >= 1
  /\ AfterParse =>
       \A k \in 1..Len(services) :
         /\ Len(services[k].operations) >= 1
         /\ Len(services[k].operations) - 1 >= 0
         /\ services[k] = service_map[services[k].name]

\* C12 witness: the API file of a service is written, the service has one
\* operation, and the tag filter kept another operation of the document,
\* with another tag, out of the result
C12_Witness ==
  /\ pc = "write_types"
  /\ Len(services) = 1
  /\ Len(services[1].operations) = 1
  /\ FileOf(1) \in DOMAIN files
  /\ \E i \in 1..Len(Entries) :
       /\ Entries[i].method \in ValidMethods
       /\ ~Grouped(Entries[i])
       /\ GroupingTag(Entries[i].operation) # services[1].name

\* The types content of the file of the k-th service: what follows the API
\* content
TypesContentOf(k) ==
  LET content == files[FileOf(k)]
      api == ApiFileContent(services[k], Unwrap(args.request_lib_path),
                            Unwrap(args.api_prefix))
  IN SubSeq(content, Len(api) + 1, Len(content))

\* The places of a text where an `export type` statement starts, and the
\* name a statement declares: the text up to the ` = ` that follows
ExportTypeStatements(content) ==
  { i \in 1..Len(content) : content[i] = "export type " }
DeclaredName(content, i) ==
  LET end == CHOOSE j \in (i + 1)..Len(content) :
               /\ content[j] \in { " = ", " = any;" }
               /\ \A h \in (i + 1)..(j - 1) : content[h] \notin { " = ", " = any;" }
  IN SubSeq(content, i + 1, end - 1)

====
